---- MODULE Spec2Model ----
(***************************************************************************)
(* The DataDog proxy worker of node-dd-to-otel/worker/src/index.js: the    *)
(* fetch handler routes one inbound request; handleDataDogProxy forwards   *)
(* its body to DataDog (primary sink) and, converted to OTEL, to Firetiger *)
(* (secondary sink), joins both calls and answers from the primary one.    *)
(*                                                                         *)
(* A JavaScript string is a sequence of tokens.  The characters the code   *)
(* looks at ("/", "?", "&", "=", "+", "%", hex digits after a "%") are     *)
(* tokens of their own; any other run of characters is one opaque token.   *)
(* null/undefined where a string may stand is the one-token sequence NULL. *)
(***************************************************************************)
EXTENDS Naturals, Sequences, FiniteSets, TLC

VARIABLES
    env,        \* the worker's configuration (env.DD_FORWARD_ENABLED, ...)
    request,    \* the inbound request being handled
    pc,         \* where the handler stands: start, readBody, join, done
    requestId,  \* handleDataDogProxy's requestId
    forward,    \* handleDataDogProxy's decodedForward
    primary,    \* promises[0]: the DataDog call and its outcome
    secondary,  \* promises[1]: the Firetiger call and its outcome
    outbound,   \* every outbound network call made, in order
    results,    \* what Promise.allSettled handed back (the logged outcomes)
    response,   \* the Response returned to the caller
    served,      \* requests this worker instance has answered before this one
    suspended   \* a second request handled at the same time: its handler, waiting at an await

vars == <<env, request, pc, requestId, forward, primary, secondary, outbound,
          results, response, served, suspended>>

NULL == <<"<null>">>

Truthy(s) == s # NULL /\ s # <<>>

-----------------------------------------------------------------------------
(* String helpers *)

StartsWith(s, p) == Len(s) >= Len(p) /\ SubSeq(s, 1, Len(p)) = p

Tail3(s) == SubSeq(s, 4, Len(s))

HexDigits ==
    {"0", "1", "2", "3", "4", "5", "6", "7", "8", "9",
     "A", "B", "C", "D", "E", "F", "a", "b", "c", "d", "e", "f"}

\* A "%XY" escape is well formed when X and Y are hex digits.
IsEscape(s) == Len(s) >= 3 /\ s[1] = "%" /\ s[2] \in HexDigits /\ s[3] \in HexDigits

\* The escape is one byte of ASCII (below 0x80); a lone byte above is no UTF-8.
IsAsciiEscape(s) == IsEscape(s) /\ s[2] \in {"0", "1", "2", "3", "4", "5", "6", "7"}

\* The character a "%XY" escape stands for.
PctChar(h1, h2) ==
    CASE <<h1, h2>> = <<"2", "F">> -> "/"
      [] <<h1, h2>> = <<"2", "f">> -> "/"
      [] <<h1, h2>> = <<"2", "5">> -> "%"
      [] <<h1, h2>> = <<"2", "6">> -> "&"
      [] <<h1, h2>> = <<"2", "B">> -> "+"
      [] <<h1, h2>> = <<"3", "A">> -> ":"
      [] <<h1, h2>> = <<"3", "D">> -> "="
      [] <<h1, h2>> = <<"3", "F">> -> "?"
      [] OTHER -> "\\x" \o h1 \o h2

\* decodeURIComponent: every "%XY" becomes its character; a "%" that starts
\* no escape raises URIError (ok = FALSE).
RECURSIVE decodeURIComponent(_)
decodeURIComponent(s) ==
    IF s = <<>> THEN [ok |-> TRUE, v |-> <<>>]
    ELSE IF s[1] = "%"
         THEN IF IsAsciiEscape(s)
              THEN LET r == decodeURIComponent(Tail3(s))
                   IN  [ok |-> r.ok, v |-> IF r.ok THEN <<PctChar(s[2], s[3])>> \o r.v ELSE <<>>]
              ELSE [ok |-> FALSE, v |-> <<>>]
         ELSE LET r == decodeURIComponent(Tail(s))
              IN  [ok |-> r.ok, v |-> IF r.ok THEN <<s[1]>> \o r.v ELSE <<>>]

\* The URL standard's percent-decode, as URLSearchParams applies it: "+" is a
\* space, a well-formed escape becomes its character, a stray "%" stays.
RECURSIVE FormDecode(_)
FormDecode(s) ==
    IF s = <<>> THEN <<>>
    ELSE IF IsAsciiEscape(s) THEN <<PctChar(s[2], s[3])>> \o FormDecode(Tail3(s))
    ELSE IF s[1] = "+" THEN <<" ">> \o FormDecode(Tail(s))
    ELSE <<s[1]>> \o FormDecode(Tail(s))

\* The index of the first token c in s, or 0.
RECURSIVE IndexOf(_, _)
IndexOf(s, c) ==
    IF s = <<>> THEN 0
    ELSE IF s[1] = c THEN 1
    ELSE LET i == IndexOf(Tail(s), c) IN IF i = 0 THEN 0 ELSE i + 1

\* url.searchParams.get(name) on the query string q (url.search without "?"):
\* the decoded value of the first name=value pair whose decoded name is name.
RECURSIVE SearchParamsGet(_, _)
SearchParamsGet(q, name) ==
    IF q = <<>> THEN NULL
    ELSE LET amp  == IndexOf(q, "&")
             pair == IF amp = 0 THEN q ELSE SubSeq(q, 1, amp - 1)
             rest == IF amp = 0 THEN <<>> ELSE SubSeq(q, amp + 1, Len(q))
             eq   == IndexOf(pair, "=")
             k    == IF eq = 0 THEN pair ELSE SubSeq(pair, 1, eq - 1)
             v    == IF eq = 0 THEN <<>> ELSE SubSeq(pair, eq + 1, Len(pair))
         IN  IF pair # <<>> /\ FormDecode(k) = <<name>>
             THEN FormDecode(v)
             ELSE SearchParamsGet(rest, name)

searchParams_get(url, name) ==
    SearchParamsGet(IF url.search = <<>> THEN <<>> ELSE Tail(url.search), name)

-----------------------------------------------------------------------------
(* Bounds and inputs *)

\* Requests one worker instance handles, one after the other.
MaxRequests == 2

\* env.DD_FORWARD_ENABLED, env.FIRETIGER_ENDPOINT, env.FIRETIGER_API_KEY: unset or set.
Envs ==
    [DD_FORWARD_ENABLED : {NULL, <<"false">>, <<"true">>},
     FIRETIGER_ENDPOINT : {NULL, <<"https://ingest.firetiger.example/v1/logs">>},
     FIRETIGER_API_KEY  : {NULL, <<"ft-key">>}]

Methods == {"OPTIONS", "POST", "GET"}

HealthPath == <<"/", "health">>

Pathnames ==
    {HealthPath,
     <<"/", "api", "/", "v2", "/", "logs">>,
     <<"/", "v1", "/", "input", "/", "tok">>,
     <<"/", "api", "/", "v2">>}

\* ddforward=%2Fapi%2Fv2%2Flogs
FwdLogs == <<"ddforward", "=", "%", "2", "F", "api", "%", "2", "F", "v2", "%", "2", "F", "logs">>

\* url.search of the inbound request.
Searches ==
    {<<>>,
     <<"?">> \o FwdLogs,
     <<"?">> \o FwdLogs \o <<"&", "site", "=", "datadoghq.eu">>,
     <<"?">> \o FwdLogs \o <<"&", "site", "=", "unknown.example.com">>,
     <<"?">> \o FwdLogs \o <<"&", "site", "=", "constructor">>,
     \* ddforward=%2Fapi%2Fv2%2Flogs%3Fddtags%3Drate%3A100%25 : the target ends in a bare "%"
     <<"?">> \o FwdLogs \o <<"%", "3", "F", "ddtags", "%", "3", "D", "rate", "%", "3", "A", "100", "%", "2", "5">>,
     <<"?", "ddforward", "=">>,
     <<"?", "q", "=", "100", "%">>}

\* The X-Datadog-Site request header.
SiteHeaders == {NULL, <<"datadoghq.eu">>}

\* Request bodies (each body text is one token; the empty body is the empty string).
BodyLogs == <<"{\"logs\":[{\"message\":\"m1\",\"level\":\"error\",\"service\":\"svc\",\"retryCount\":3}]}">>

BodyNullLog == <<"{\"logs\":[null]}">>

Bodies == {<<>>, BodyLogs, BodyNullLog}

\* Requests that name the site in other ways: a legacy path with a site
\* parameter; an empty site parameter; an empty X-Datadog-Site header; a
\* parameter and a header that name different sites.
SiteRequests ==
    [method : {"POST"}, pathname : {<<"/", "api", "/", "v2", "/", "logs">>},
     search : {<<"?", "site", "=", "datadoghq.eu">>}, siteHeader : {NULL}, body : {BodyLogs}]
    \cup [method : {"POST"}, pathname : {<<"/", "api", "/", "v2">>},
          search : {<<"?">> \o FwdLogs \o <<"&", "site", "=">>},
          siteHeader : {NULL, <<"datadoghq.eu">>}, body : {BodyLogs}]
    \cup [method : {"POST"}, pathname : {<<"/", "api", "/", "v2">>},
          search : {<<"?">> \o FwdLogs, <<"?">> \o FwdLogs \o <<"&", "site", "=", "datadoghq.eu">>},
          siteHeader : {<<>>, <<"us3.datadoghq.com">>}, body : {BodyLogs}]

Requests ==
    [method : Methods, pathname : Pathnames, search : Searches,
     siteHeader : SiteHeaders, body : Bodies]
    \cup SiteRequests

NoRequest ==
    [method |-> "", pathname |-> <<>>, search |-> <<>>, siteHeader |-> NULL, body |-> <<>>]

\* Math.random().toString(36).substring(2, 15): some short token.
RequestIds == {<<"k3j9x">>, <<"p0q1z">>}

\* What the DataDog intake may answer: a status and a body text (a 204 has no body).
PrimaryResponses ==
    [status : {200, 202, 503}, body : {<<>>, <<"{}">>}]
        \cup {[status |-> 204, body |-> <<>>]}

\* error.message of a fetch() that got no HTTP response.
NetworkErrors == {<<"Network connection lost.">>}

\* What the Firetiger endpoint may answer.
SecondaryStatuses == {200, 500}

-----------------------------------------------------------------------------
(* Responses *)

\* Mutant: the preflight cache lifetime left out.
getCORSHeadersNoMaxAge ==
    {<<"Access-Control-Allow-Origin", "*">>,
     <<"Access-Control-Allow-Methods", "GET, POST, PUT, DELETE, OPTIONS">>,
     <<"Access-Control-Allow-Headers", "Content-Type, Authorization, X-Requested-With">>}

\* getCORSHeaders()
getCORSHeaders ==
    {<<"Access-Control-Allow-Origin", "*">>,
     <<"Access-Control-Allow-Methods", "GET, POST, PUT, DELETE, OPTIONS">>,
     <<"Access-Control-Allow-Headers", "Content-Type, Authorization, X-Requested-With">>,
     <<"Access-Control-Max-Age", "86400">>}

\* new Response(body, {status, headers}); body NULL is the null body.
Response(body, status, headers) ==
    [status |-> status, body |-> body, headers |-> headers]

NoResponse == [status |-> 0, body |-> NULL, headers |-> {}]

\* handleCORS()
handleCORS == Response(NULL, 204, getCORSHeaders)

\* response.ok
Ok(status) == status >= 200 /\ status <= 299

-----------------------------------------------------------------------------
(* JSON values and the converter *)

JNull == [t |-> "null"]

JUndefined == [t |-> "undefined"]

JNum(n) == [t |-> "number", n |-> n]

JStr(s) == [t |-> "string", s |-> s]

JBool(b) == [t |-> "boolean", b |-> b]

JArr(a) == [t |-> "array", a |-> a]

\* An object: its keys in insertion order and their values.
JObj(k, v) == [t |-> "object", k |-> k, v |-> v]

\* An object built from (key, value) fields; a field whose value is undefined
\* is left out, as in the JSON text.
MakeObj(fields) ==
    LET present == SelectSeq(fields, LAMBDA f : f.v # JUndefined)
    IN  JObj([i \in 1..Len(present) |-> present[i].k], [i \in 1..Len(present) |-> present[i].v])

Field(k, v) == [k |-> k, v |-> v]

\* The sequences seqs, one after the other.
RECURSIVE Concat(_)
Concat(seqs) == IF seqs = <<>> THEN <<>> ELSE seqs[1] \o Concat(Tail(seqs))

\* The texts items, joined by commas.
RECURSIVE JoinItems(_)
JoinItems(items) ==
    IF items = <<>> THEN <<>>
    ELSE IF Len(items) = 1 THEN items[1]
    ELSE items[1] \o <<",">> \o JoinItems(Tail(items))

\* JSON.stringify(value) for a value JSON.parse can give (strings of the model
\* hold no character that needs an escape).
RECURSIVE JSONStringify(_)
JSONStringify(value) ==
    CASE value.t = "null"    -> <<"null">>
      [] value.t = "number"  -> <<ToString(value.n)>>
      [] value.t = "boolean" -> IF value.b THEN <<"true">> ELSE <<"false">>
      [] value.t = "string"  -> <<"\"">> \o value.s \o <<"\"">>
      [] value.t = "array"   ->
            <<"[">> \o JoinItems([i \in 1..Len(value.a) |-> JSONStringify(value.a[i])]) \o <<"]">>
      [] value.t = "object"  ->
            <<"{">> \o JoinItems([i \in 1..Len(value.k) |->
                                    <<"\"", value.k[i], "\"", ":">> \o JSONStringify(value.v[i])])
                    \o <<"}">>
      [] OTHER -> NULL

\* Events of one batch at most.
MaxEvents == 2

\* Values of the fields of an event: undefined is the absent field.
MessageValues == {JUndefined, JStr(<<"m1">>), JStr(<<>>)}

LevelValues ==
    {JUndefined, JStr(<<"debug">>), JStr(<<"info">>), JStr(<<"warn">>), JStr(<<"error">>),
     JStr(<<"ERROR">>), JStr(<<"fatal">>), JStr(<<"constructor">>), JNum(5),
     JArr(<<JStr(<<"error">>)>>)}

ServiceValues == {JUndefined, JStr(<<"svc">>), JStr(<<>>), JNum(0)}

EnvValues == {JUndefined, JStr(<<"prod">>), JStr(<<>>)}

VersionValues == {JUndefined, JStr(<<"1.2.3">>), JNum(2), JBool(FALSE)}

TimestampValues ==
    {JUndefined, JNum(1500), JNum(0), JStr(<<"1970-01-01T00:00:01.500Z">>), JStr(<<"yesterday">>)}

ExtraValues ==
    {JUndefined, JStr(<<"u1">>), JNum(3), JBool(FALSE), JNull,
     JObj(<<"id">>, <<JNum(7)>>), JArr(<<JNum(1), JNum(2)>>)}

\* Events whose field names are integers, or resemble the keys of the
\* attributes the converter emits.
NamedEvents ==
    {MakeObj(<<Field("usr", JStr(<<"u1">>)), Field("7", JStr(<<"x">>)), Field("2", JBool(TRUE))>>),
     MakeObj(<<Field("usr", JStr(<<"u1">>)), Field("session", JNum(3))>>),
     MakeObj(<<Field("service", JStr(<<"svc">>)), Field("service.name", JStr(<<"n">>)),
               Field("proxy.source", JStr(<<"p">>)), Field("dd.usr", JStr(<<"a">>)),
               Field("usr", JStr(<<"b">>))>>)}

\* Events that are objects: message, level and one more field; the core
\* fields; a timestamp; the events above.
ObjectEvents ==
    {MakeObj(<<Field("message", m), Field("level", l), Field("usr", x)>>) :
        m \in MessageValues, l \in LevelValues, x \in ExtraValues}
    \cup {MakeObj(<<Field("service", sv), Field("env", e), Field("version", v), Field("usr", x)>>) :
            sv \in ServiceValues, e \in EnvValues, v \in VersionValues,
            x \in {JUndefined, JNum(3)}}
    \cup {MakeObj(<<Field("message", JStr(<<"m1">>)), Field("timestamp", ts)>>) :
            ts \in TimestampValues}
    \cup NamedEvents

\* Events of the batches: objects, and values that are no object.
BatchEvents ==
    {MakeObj(<<Field("message", JStr(<<"m1">>)), Field("level", JStr(<<"error">>))>>),
     MakeObj(<<Field("message", JStr(<<"m2">>)), Field("usr", JStr(<<"u1">>))>>),
     JNull, JNum(5), JStr(<<"x">>), JArr(<<JNum(1)>>)}

Batches == UNION {[1..n -> BatchEvents] : n \in 0..MaxEvents}

\* What the field logs holds when it is no array.
LogsValues ==
    {JStr(<<"x">>), JStr(<<>>), JNum(5), JNum(0), JBool(TRUE), JBool(FALSE), JNull,
     JObj(<<"a">>, <<JNum(1)>>)}

\* The JSON values a request body may hold.
ConvertValues ==
    ObjectEvents
    \cup {JObj(<<"logs">>, <<JArr(<<e>>)>>) : e \in ObjectEvents}
    \cup {JObj(<<"logs">>, <<JArr(batch)>>) : batch \in Batches}
    \cup {JObj(<<"logs">>, <<l>>) : l \in LogsValues}
    \cup {JNum(5), JStr(<<"x">>), JNull, JBool(TRUE), JArr(<<>>),
          JArr(<<MakeObj(<<Field("message", JStr(<<"m1">>))>>)>>)}

JSONTexts == [value \in ConvertValues |-> JSONStringify(value)]

\* The JSON value a JSON text of the inputs stands for, its fields in the
\* order of the text.
TextValue(text) == CHOOSE value \in DOMAIN JSONTexts : JSONTexts[value] = text

\* The largest field name of the inputs that is an integer.
MaxIndex == 9

\* A property name that is an array index.
IsIndexKey(k) == \E n \in 0..MaxIndex : ToString(n) = k

\* Mutant: an object enumerates its properties in the order of the text.
PropertyOrderAsWritten(value) == value

\* The value as JSON.parse builds it: an object enumerates the properties
\* named by an integer first, in ascending order, then the others in the
\* order they were created (Object.keys, JSON.stringify).
RECURSIVE PropertyOrder(_)
PropertyOrder(value) ==
    CASE value.t = "object" ->
            LET fields  == [i \in 1..Len(value.k) |-> Field(value.k[i], PropertyOrder(value.v[i]))]
                ordered == Concat([n \in 1..(MaxIndex + 1) |->
                                      SelectSeq(fields, LAMBDA f : f.k = ToString(n - 1))])
                           \o SelectSeq(fields, LAMBDA f : ~IsIndexKey(f.k))
            IN  JObj([i \in 1..Len(value.k) |-> ordered[i].k],
                     [i \in 1..Len(value.k) |-> ordered[i].v])
      [] value.t = "array" -> JArr([i \in 1..Len(value.a) |-> PropertyOrder(value.a[i])])
      [] OTHER -> value

\* JSON.parse of a JSON text of the inputs.
Parsed(text) == PropertyOrder(TextValue(text))

\* Body texts that are no JSON: the empty body, plain text, a truncated document.
RawBodies == {<<>>, <<"not json">>, <<"{", "\"", "logs", "\"", ":">>}

\* The body texts handed to the converter.
ConvertBodies == RawBodies \cup {JSONTexts[value] : value \in DOMAIN JSONTexts}

\* JSON.parse(text): ok = FALSE is a SyntaxError.
JSONParse(text) ==
    CASE text = BodyLogs ->
            [ok |-> TRUE,
             v  |-> JObj(<<"logs">>,
                         <<JArr(<<JObj(<<"message", "level", "service", "retryCount">>,
                                       <<JStr(<<"m1">>), JStr(<<"error">>),
                                         JStr(<<"svc">>), JNum(3)>>)>>)>>)]
      [] text = BodyNullLog ->
            [ok |-> TRUE, v |-> JObj(<<"logs">>, <<JArr(<<JNull>>)>>)]
      [] text \in RawBodies -> [ok |-> FALSE, v |-> JUndefined]
      [] text \in ConvertBodies -> [ok |-> TRUE, v |-> Parsed(text)]
      [] OTHER -> [ok |-> FALSE, v |-> JUndefined]

\* value.key: ok = FALSE is the TypeError of reading a property of null or
\* undefined; a key the value does not have reads as undefined.
GetProp(value, key) ==
    IF value.t \in {"null", "undefined"} THEN [ok |-> FALSE, v |-> JUndefined]
    ELSE IF value.t = "object" /\ \E i \in 1..Len(value.k) : value.k[i] = key
         THEN [ok |-> TRUE,
               v  |-> value.v[CHOOSE i \in 1..Len(value.k) :
                                 value.k[i] = key /\ \A j \in (i+1)..Len(value.k) : value.k[j] # key]]
         ELSE [ok |-> TRUE, v |-> JUndefined]

\* JavaScript truthiness of a JSON value.
JTruthy(value) ==
    CASE value.t \in {"null", "undefined"} -> FALSE
      [] value.t = "number"  -> value.n # 0
      [] value.t = "string"  -> value.s # <<>>
      [] value.t = "boolean" -> value.b
      [] OTHER -> TRUE

\* Date.now(), the capture time.
Now == 1000

\* The one raw log of the catch block.
RawLog(datadogPayload) ==
    JArr(<<JObj(<<"message", "timestamp", "level">>,
                <<JStr(datadogPayload), JNum(Now), JStr(<<"info">>)>>)>>)

\* parsed.logs || [parsed], logs being the outcome of reading parsed.logs; the
\* raw log when that read throws.
LogsOrSelf(logs, parsed, raw) ==
    IF ~logs.ok THEN raw
    ELSE IF JTruthy(logs.v) THEN logs.v ELSE JArr(<<parsed>>)

\* The try block after JSON.parse; the raw log when JSON.parse throws.
ParsedLogs(parsed, raw) ==
    IF ~parsed.ok THEN raw ELSE LogsOrSelf(GetProp(parsed.v, "logs"), parsed.v, raw)

\* ddLogs of convertDataDogToOTEL.
DdLogs(datadogPayload) == ParsedLogs(JSONParse(datadogPayload), RawLog(datadogPayload))

\* An object literal answers, besides its own keys, to the names it inherits
\* from Object.prototype, with a function or an object.
ObjectPrototypeKeys ==
    {"constructor", "toString", "toLocaleString", "valueOf", "hasOwnProperty",
     "isPrototypeOf", "propertyIsEnumerable", "__proto__", "__defineGetter__",
     "__defineSetter__", "__lookupGetter__", "__lookupSetter__"}

\* The property key a value used as a key converts to (ToPropertyKey: the
\* string of the value; an array prints its elements joined by commas).
RECURSIVE ToPropertyKey(_)
ToPropertyKey(value) ==
    CASE value.t = "string"    -> value.s
      [] value.t = "number"    -> <<ToString(value.n)>>
      [] value.t = "boolean"   -> IF value.b THEN <<"true">> ELSE <<"false">>
      [] value.t = "null"      -> <<"null">>
      [] value.t = "undefined" -> <<"undefined">>
      [] value.t = "array"     ->
            JoinItems([i \in 1..Len(value.a) |->
                          IF value.a[i].t \in {"null", "undefined"} THEN <<>>
                          ELSE ToPropertyKey(value.a[i])])
      [] OTHER -> <<"[object Object]">>

severityMap ==
    [token \in {"debug", "info", "warn", "error"} |->
        CASE token = "debug" -> [number |-> JNum(5),  text |-> JStr(<<"DEBUG">>)]
          [] token = "info"  -> [number |-> JNum(9),  text |-> JStr(<<"INFO">>)]
          [] token = "warn"  -> [number |-> JNum(13), text |-> JStr(<<"WARN">>)]
          [] token = "error" -> [number |-> JNum(17), text |-> JStr(<<"ERROR">>)]]

\* severityMap[ddLog.level] || severityMap['info'], as severity.number and
\* severity.text read it: a name severityMap inherits from Object.prototype
\* finds a function or an object, which is truthy and has neither property.
Severity(level) ==
    LET key == ToPropertyKey(level)
    IN  IF Len(key) = 1 /\ key[1] \in DOMAIN severityMap THEN severityMap[key[1]]
        ELSE IF Len(key) = 1 /\ key[1] \in ObjectPrototypeKeys
        THEN [number |-> JUndefined, text |-> JUndefined]
        ELSE severityMap["info"]

\* Date.parse of a string: NaN (nan) for a text that is no date.
DateParse(s) ==
    IF s = <<"1970-01-01T00:00:01.500Z">> THEN [nan |-> FALSE, ms |-> 1500]
    ELSE [nan |-> TRUE, ms |-> 0]

\* new Date(value).getTime(); an object prints as a text that is no date.
DateGetTime(value) ==
    CASE value.t = "number"  -> [nan |-> FALSE, ms |-> value.n]
      [] value.t = "string"  -> DateParse(value.s)
      [] value.t = "boolean" -> [nan |-> FALSE, ms |-> IF value.b THEN 1 ELSE 0]
      [] value.t = "null"    -> [nan |-> FALSE, ms |-> 0]
      [] OTHER -> [nan |-> TRUE, ms |-> 0]

\* timeUnixNano: (timestamp * 1000000).toString(), of ddLog.timestamp when it
\* is truthy and of Date.now() otherwise.
TimeUnixNano(timestamp) ==
    IF JTruthy(timestamp)
    THEN IF DateGetTime(timestamp).nan THEN <<"NaN">>
         ELSE <<ToString(DateGetTime(timestamp).ms * 1000000)>>
    ELSE <<ToString(Now * 1000000)>>

\* body.stringValue: ddLog.message || JSON.stringify(ddLog)
BodyValue(ddLog) ==
    IF JTruthy(GetProp(ddLog, "message").v) THEN GetProp(ddLog, "message").v
    ELSE JStr(JSONStringify(ddLog))

\* {key, value: {[type]: value}}
Attribute(key, type, value) == [key |-> key, type |-> type, value |-> value]

\* if (ddLog[field]) attributes.push({key, value: {stringValue: ddLog[field]}})
CoreAttribute(ddLog, field, key) ==
    IF JTruthy(GetProp(ddLog, field).v)
    THEN <<Attribute(<<key>>, "stringValue", GetProp(ddLog, field).v)>>
    ELSE <<>>

\* Object.keys(ddLog) with the value of each key: the fields of an object, the
\* indices of an array or of a string (one token of a string event is one
\* character), nothing for a number or a boolean.
OwnEntries(ddLog) ==
    CASE ddLog.t = "object" -> [i \in 1..Len(ddLog.k) |-> Field(ddLog.k[i], ddLog.v[i])]
      [] ddLog.t = "array"  -> [i \in 1..Len(ddLog.a) |-> Field(ToString(i - 1), ddLog.a[i])]
      [] ddLog.t = "string" -> [i \in 1..Len(ddLog.s) |-> Field(ToString(i - 1), JStr(<<ddLog.s[i]>>))]
      [] OTHER -> <<>>

CoreFields == {"message", "timestamp", "level", "service", "env", "version"}

\* Mutant: a value that is no string, number or boolean gets no attribute.
ContextAttributePrimitivesOnly(key, value) ==
    CASE value.t = "string"  -> <<Attribute(<<"dd.", key>>, "stringValue", value)>>
      [] value.t = "number"  -> <<Attribute(<<"dd.", key>>, "doubleValue", value)>>
      [] value.t = "boolean" -> <<Attribute(<<"dd.", key>>, "boolValue", value)>>
      [] OTHER -> <<>>

\* Mutant: the key of the attribute is the name of the field, with no prefix.
ContextAttributeNoPrefix(key, value) ==
    CASE value.t = "string"  -> <<Attribute(<<key>>, "stringValue", value)>>
      [] value.t = "number"  -> <<Attribute(<<key>>, "doubleValue", value)>>
      [] value.t = "boolean" -> <<Attribute(<<key>>, "boolValue", value)>>
      [] OTHER -> <<Attribute(<<key>>, "stringValue", JStr(JSONStringify(value)))>>

\* The attribute pushed for the key of ddLog that is no core field.
ContextAttribute(key, value) ==
    CASE value.t = "string"  -> <<Attribute(<<"dd.", key>>, "stringValue", value)>>
      [] value.t = "number"  -> <<Attribute(<<"dd.", key>>, "doubleValue", value)>>
      [] value.t = "boolean" -> <<Attribute(<<"dd.", key>>, "boolValue", value)>>
      [] OTHER -> <<Attribute(<<"dd.", key>>, "stringValue", JStr(JSONStringify(value)))>>

\* Object.keys(ddLog).forEach(...): the attributes of the keys that are no
\* core field, in the order of the keys.
ContextAttributes(ddLog) ==
    LET entries == OwnEntries(ddLog)
    IN  Concat([i \in 1..Len(entries) |->
                   IF entries[i].k \in CoreFields THEN <<>>
                   ELSE ContextAttribute(entries[i].k, entries[i].v)])

\* new Date().toISOString() at the capture time Now.
NowISO == <<"1970-01-01T00:00:01.000Z">>

\* The proxy metadata pushed last.
ProxyAttributes(id) ==
    <<Attribute(<<"proxy.source">>, "stringValue", JStr(<<"dd-proxy-worker">>)),
      Attribute(<<"proxy.request_id">>, "stringValue", JStr(id)),
      Attribute(<<"proxy.timestamp">>, "stringValue", JStr(NowISO))>>

\* The record otelLog the callback of ddLogs.map returns.
LogRecord(severity, ddLog, id) ==
    [ok |-> TRUE,
     timeUnixNano   |-> TimeUnixNano(GetProp(ddLog, "timestamp").v),
     severityNumber |-> severity.number,
     severityText   |-> severity.text,
     body           |-> BodyValue(ddLog),
     attributes     |-> CoreAttribute(ddLog, "service", "service.name")
                        \o CoreAttribute(ddLog, "env", "deployment.environment")
                        \o CoreAttribute(ddLog, "version", "service.version")
                        \o ContextAttributes(ddLog)
                        \o ProxyAttributes(id)]

\* The callback of ddLogs.map; ok = FALSE when reading ddLog.level throws,
\* ddLog being null.
OtelLog(ddLog, id) ==
    IF ~GetProp(ddLog, "level").ok THEN [ok |-> FALSE]
    ELSE LogRecord(Severity(GetProp(ddLog, "level").v), ddLog, id)

\* The resource and the scope of every envelope.
ResourceAttributes ==
    <<Attribute(<<"service.name">>, "stringValue", JStr(<<"browser-extension">>)),
      Attribute(<<"telemetry.sdk.name">>, "stringValue", JStr(<<"datadog-browser-sdk">>)),
      Attribute(<<"telemetry.sdk.version">>, "stringValue", JStr(<<"5.x">>))>>

Scope == [name |-> "dd-proxy-worker", version |-> "1.0.0"]

\* What convertDataDogToOTEL gives when it throws.
NoEnvelope == [ok |-> FALSE, resource |-> <<>>, scope |-> Scope, logRecords |-> <<>>]

\* The envelope returned for the records otelLogs; none when the callback threw.
EnvelopeOf(otelLogs) ==
    IF \E i \in 1..Len(otelLogs) : ~otelLogs[i].ok
    THEN NoEnvelope
    ELSE [ok |-> TRUE, resource |-> ResourceAttributes, scope |-> Scope, logRecords |-> otelLogs]

\* ddLogs.map(...) and the return; a ddLogs that is no array has no map method.
MapLogs(ddLogs, id) ==
    IF ddLogs.t # "array" THEN NoEnvelope
    ELSE EnvelopeOf([i \in 1..Len(ddLogs.a) |-> OtelLog(ddLogs.a[i], id)])

\* convertDataDogToOTEL(datadogPayload, requestId): ok = FALSE when it throws
\* (ddLogs has no map method, or a log is null).
convertDataDogToOTEL(datadogPayload, id) == MapLogs(DdLogs(datadogPayload), id)

-----------------------------------------------------------------------------
(* Site selection *)

DD_INTAKE_ORIGINS ==
    [site \in {"datadoghq.com", "us3.datadoghq.com", "us5.datadoghq.com", "datadoghq.eu",
               "ap1.datadoghq.com", "ap2.datadoghq.com", "ddog-gov.com"} |->
        CASE site = "datadoghq.com"     -> "https://browser-intake-datadoghq.com"
          [] site = "us3.datadoghq.com" -> "https://browser-intake-us3-datadoghq.com"
          [] site = "us5.datadoghq.com" -> "https://browser-intake-us5-datadoghq.com"
          [] site = "datadoghq.eu"      -> "https://browser-intake-datadoghq.eu"
          [] site = "ap1.datadoghq.com" -> "https://browser-intake-ap1-datadoghq.com"
          [] site = "ap2.datadoghq.com" -> "https://browser-intake-ap2-datadoghq.com"
          [] site = "ddog-gov.com"      -> "https://browser-intake-ddog-gov.com"]

\* DD_INTAKE_ORIGINS[site], as the template literal later prints it.
IntakeOrigin(site) ==
    IF Len(site) = 1 /\ site[1] \in DOMAIN DD_INTAKE_ORIGINS
    THEN <<DD_INTAKE_ORIGINS[site[1]]>>
    ELSE IF Len(site) = 1 /\ site[1] \in ObjectPrototypeKeys
    THEN <<"[Object.prototype." \o site[1] \o "]">>
    ELSE NULL

\* Mutant: the header is read before the query parameter.
extractDataDogSiteHeaderFirst(req) ==
    LET siteParam == searchParams_get(req, "site")
    IN  IF Truthy(req.siteHeader) THEN req.siteHeader
        ELSE IF Truthy(siteParam) THEN siteParam
        ELSE <<"us5.datadoghq.com">>

\* extractDataDogSite(request)
extractDataDogSite(req) ==
    LET siteParam == searchParams_get(req, "site")
    IN  IF Truthy(siteParam) THEN siteParam
        ELSE IF Truthy(req.siteHeader) THEN req.siteHeader
        ELSE <<"us5.datadoghq.com">>

\* const site = extractDataDogSite(request) || 'us5.datadoghq.com'
Site(req) ==
    IF Truthy(extractDataDogSite(req)) THEN extractDataDogSite(req) ELSE <<"us5.datadoghq.com">>

\* fetch(url) sends a request only to an absolute URL; any other rejects.
IsAbsoluteUrl(url) ==
    url # <<>> /\ \E site \in DOMAIN DD_INTAKE_ORIGINS : url[1] = DD_INTAKE_ORIGINS[site]

-----------------------------------------------------------------------------
(* The fetch handler: routing *)

\* Mutant: || where the code has &&.
FiretigerConfiguredEither(e) == Truthy(e.FIRETIGER_ENDPOINT) \/ Truthy(e.FIRETIGER_API_KEY)

FiretigerConfigured(e) == Truthy(e.FIRETIGER_ENDPOINT) /\ Truthy(e.FIRETIGER_API_KEY)

\* JSON.stringify(healthData): the fields that depend on the configuration.
\* Mutant: forwarding is reported enabled only when the variable is set.
HealthBodyEnabledWhenSet(e) ==
    <<"status:healthy",
      IF e.DD_FORWARD_ENABLED \notin {NULL, <<"false">>}
      THEN "dd_forward_enabled:true" ELSE "dd_forward_enabled:false",
      IF FiretigerConfigured(e)
      THEN "firetiger_configured:true" ELSE "firetiger_configured:false">>

HealthBody(e) ==
    <<"status:healthy",
      IF e.DD_FORWARD_ENABLED # <<"false">>
      THEN "dd_forward_enabled:true" ELSE "dd_forward_enabled:false",
      IF FiretigerConfigured(e)
      THEN "firetiger_configured:true" ELSE "firetiger_configured:false">>

NotFoundBody == <<"DataDog Proxy Worker - Send requests with ddforward parameter">>

\* Mutant: the health check tested before the OPTIONS method.
RouteHealthFirst(req) ==
    LET ddforward == searchParams_get(req, "ddforward")
    IN  IF req.pathname = HealthPath THEN [kind |-> "health", ddforward |-> NULL]
        ELSE IF req.method = "OPTIONS" THEN [kind |-> "cors", ddforward |-> NULL]
        ELSE IF Truthy(ddforward) /\ req.method = "POST"
             THEN [kind |-> "proxy", ddforward |-> ddforward]
        ELSE IF \/ StartsWith(req.pathname, <<"/", "api", "/", "v2", "/">>)
                \/ StartsWith(req.pathname, <<"/", "v1", "/", "input", "/">>)
             THEN [kind |-> "proxy", ddforward |-> req.pathname \o req.search]
        ELSE [kind |-> "notfound", ddforward |-> NULL]

\* Mutant: the ddforward branch taken whatever the method.
RouteAnyMethod(req) ==
    LET ddforward == searchParams_get(req, "ddforward")
    IN  IF req.method = "OPTIONS" THEN [kind |-> "cors", ddforward |-> NULL]
        ELSE IF req.pathname = HealthPath THEN [kind |-> "health", ddforward |-> NULL]
        ELSE IF Truthy(ddforward)
             THEN [kind |-> "proxy", ddforward |-> ddforward]
        ELSE IF \/ StartsWith(req.pathname, <<"/", "api", "/", "v2", "/">>)
                \/ StartsWith(req.pathname, <<"/", "v1", "/", "input", "/">>)
             THEN [kind |-> "proxy", ddforward |-> req.pathname \o req.search]
        ELSE [kind |-> "notfound", ddforward |-> NULL]

\* Mutant: the ddforward branch tested before the health check.
RouteForwardFirst(req) ==
    LET ddforward == searchParams_get(req, "ddforward")
    IN  IF req.method = "OPTIONS" THEN [kind |-> "cors", ddforward |-> NULL]
        ELSE IF Truthy(ddforward) /\ req.method = "POST"
             THEN [kind |-> "proxy", ddforward |-> ddforward]
        ELSE IF req.pathname = HealthPath THEN [kind |-> "health", ddforward |-> NULL]
        ELSE IF \/ StartsWith(req.pathname, <<"/", "api", "/", "v2", "/">>)
                \/ StartsWith(req.pathname, <<"/", "v1", "/", "input", "/">>)
             THEN [kind |-> "proxy", ddforward |-> req.pathname \o req.search]
        ELSE [kind |-> "notfound", ddforward |-> NULL]

\* The branch fetch() takes for a request, and the ddforward argument it hands
\* to handleDataDogProxy.
Route(req) ==
    LET ddforward == searchParams_get(req, "ddforward")
    IN  IF req.method = "OPTIONS" THEN [kind |-> "cors", ddforward |-> NULL]
        ELSE IF req.pathname = HealthPath THEN [kind |-> "health", ddforward |-> NULL]
        ELSE IF Truthy(ddforward) /\ req.method = "POST"
             THEN [kind |-> "proxy", ddforward |-> ddforward]
        ELSE IF \/ StartsWith(req.pathname, <<"/", "api", "/", "v2", "/">>)
                \/ StartsWith(req.pathname, <<"/", "v1", "/", "input", "/">>)
             THEN [kind |-> "proxy", ddforward |-> req.pathname \o req.search]
        ELSE [kind |-> "notfound", ddforward |-> NULL]

-----------------------------------------------------------------------------
(* State *)

\* The value of a promise that has not settled.
NoValue == [service |-> "none", status |-> 0, success |-> FALSE]

\* What the network has answered to a call: nothing yet.
NoAnswer == [status |-> 0]

\* No promise: the call was never made.
NoCall == [state |-> "none", sent |-> FALSE, answer |-> NoAnswer, value |-> NoValue]

\* Mutant: requestId is a variable of the module, shared by the handlers: the
\* handler that waits is left with the identifier of the other request.
ContextSharedRequestId ==
    [request |-> request, pc |-> pc, requestId |-> suspended.requestId, forward |-> forward,
     primary |-> primary, secondary |-> secondary, outbound |-> outbound,
     results |-> results, response |-> response]

\* The handler of a request: what it keeps from one await to the next.
Context ==
    [request |-> request, pc |-> pc, requestId |-> requestId, forward |-> forward,
     primary |-> primary, secondary |-> secondary, outbound |-> outbound,
     results |-> results, response |-> response]

\* No second request is being handled.
NoContext ==
    [request |-> NoRequest, pc |-> "start", requestId |-> NULL, forward |-> NULL,
     primary |-> NoCall, secondary |-> NoCall, outbound |-> <<>>,
     results |-> <<>>, response |-> NoResponse]

Init ==
    /\ env \in Envs
    /\ request = NoRequest
    /\ pc = "start"
    /\ requestId = NULL
    /\ forward = NULL
    /\ primary = NoCall
    /\ secondary = NoCall
    /\ outbound = <<>>
    /\ results = <<>>
    /\ response = NoResponse
    /\ served = 0
    /\ suspended = NoContext

\* The handler returns resp: the request is answered.
Reply(resp) ==
    /\ response' = resp
    /\ pc' = "done"

\* fetch(request, env, ctx), up to its return or to handleDataDogProxy's first
\* await (request.text()).
fetch(req, id) ==
    /\ pc = "start"
    /\ request' = req
    /\ UNCHANGED <<env, suspended, primary, secondary, outbound, results, served>>
    /\ LET route == Route(req)
           decodedForward == decodeURIComponent(route.ddforward)
       IN  CASE route.kind = "cors" ->
                    /\ Reply(handleCORS)
                    /\ UNCHANGED <<requestId, forward>>
             [] route.kind = "health" ->
                    /\ Reply(Response(HealthBody(env), 200,
                                      {<<"Content-Type", "application/json">>} \cup getCORSHeaders))
                    /\ UNCHANGED <<requestId, forward>>
             [] route.kind = "notfound" ->
                    /\ Reply(Response(NotFoundBody, 404, getCORSHeaders))
                    /\ UNCHANGED <<requestId, forward>>
             [] route.kind = "proxy" ->
                    /\ requestId' = id
                    /\ IF decodedForward.ok
                       THEN /\ forward' = decodedForward.v
                            /\ pc' = "readBody"
                            /\ UNCHANGED response
                       ELSE /\ Reply(Response(<<"URI malformed">>, 500, getCORSHeaders))
                            /\ UNCHANGED forward

-----------------------------------------------------------------------------
(* handleDataDogProxy: the two sink calls and the join *)

\* env.DD_FORWARD_ENABLED === 'false'
KillSwitch(e) == e.DD_FORWARD_ENABLED = <<"false">>

\* Mutant: the request body is read a second time, and is empty by then.
PrimaryCallBodyReadAgain(datadogUrl, body) ==
    [state |-> "pending", sent |-> IsAbsoluteUrl(datadogUrl), url |-> datadogUrl, body |-> <<>>,
     answer |-> NoAnswer, value |-> NoValue]

\* promises[0]: fetch(datadogUrl, {method: 'POST', ..., body}).then(...).catch(...)
PrimaryCall(datadogUrl, body) ==
    [state |-> "pending", sent |-> IsAbsoluteUrl(datadogUrl), url |-> datadogUrl, body |-> body,
     answer |-> NoAnswer, value |-> NoValue]

\* forwardToFiretiger after the conversion: the call in flight with the
\* payload, or, when the conversion threw, the value its catch block returns.
FiretigerCall(otelPayload, logData, endpoint, apiKey) ==
    IF otelPayload.ok
    THEN [state |-> "pending", sent |-> TRUE, logData |-> logData, url |-> endpoint,
          authorization |-> <<"Bearer ">> \o apiKey, payload |-> otelPayload,
          answer |-> NoAnswer, value |-> NoValue]
    ELSE [state |-> "settled", sent |-> FALSE, logData |-> logData,
          payload |-> otelPayload, answer |-> NoAnswer,
          value |-> [service |-> "firetiger", error |-> <<"TypeError">>,
                     success |-> FALSE, format |-> "otel-http"]]

\* forwardToFiretiger(logData, endpoint, apiKey, requestId), up to its await of
\* fetch(endpoint, ...).
forwardToFiretiger(logData, endpoint, apiKey, id) ==
    FiretigerCall(convertDataDogToOTEL(logData, id), logData, endpoint, apiKey)

\* Mutant: the call to the secondary sink is put on the wire first.
SentSecondaryFirst(p, s) ==
    (IF s.state # "none" /\ s.sent
     THEN <<[to |-> "firetiger", url |-> s.url, authorization |-> s.authorization,
             payload |-> s.payload]>>
     ELSE <<>>)
    \o (IF p.sent THEN <<[to |-> "datadog", url |-> p.url, body |-> p.body]>> ELSE <<>>)

\* Mutant: a call the secondary sink may not take is made a second time.
SentWithRetry(p, s) ==
    (IF p.sent THEN <<[to |-> "datadog", url |-> p.url, body |-> p.body]>> ELSE <<>>)
    \o (IF s.state # "none" /\ s.sent
        THEN [i \in 1..2 |-> [to |-> "firetiger", url |-> s.url,
                              authorization |-> s.authorization, payload |-> s.payload]]
        ELSE <<>>)

\* The network requests the two promises put on the wire.
Sent(p, s) ==
    (IF p.sent THEN <<[to |-> "datadog", url |-> p.url, body |-> p.body]>> ELSE <<>>)
    \o (IF s.state # "none" /\ s.sent
        THEN <<[to |-> "firetiger", url |-> s.url, authorization |-> s.authorization,
                payload |-> s.payload]>>
        ELSE <<>>)

\* handleDataDogProxy from the body read (await request.text()) to its return
\* or to await Promise.allSettled(promises).
handleDataDogProxy ==
    /\ pc = "readBody"
    /\ UNCHANGED <<env, suspended, request, requestId, forward, results, served>>
    /\ LET body         == request.body
           site         == Site(request)
           intakeOrigin == IntakeOrigin(site)
           datadogUrl   == intakeOrigin \o forward
           datadog      == PrimaryCall(datadogUrl, body)
           firetiger    == IF FiretigerConfigured(env)
                           THEN forwardToFiretiger(body, env.FIRETIGER_ENDPOINT,
                                                   env.FIRETIGER_API_KEY, requestId)
                           ELSE NoCall
       IN  IF KillSwitch(env)
           THEN /\ Reply(Response(<<"OK">>, 200, getCORSHeaders))
                /\ UNCHANGED <<primary, secondary, outbound>>
           ELSE IF ~Truthy(intakeOrigin)
           THEN /\ Reply(Response(<<"Unsupported DataDog site: ">> \o site, 500, getCORSHeaders))
                /\ UNCHANGED <<primary, secondary, outbound>>
           ELSE /\ primary' = datadog
                /\ secondary' = firetiger
                /\ outbound' = outbound \o Sent(primary', secondary')
                /\ pc' = "join"
                /\ UNCHANGED response

\* The then-handler of the DataDog call: its value for the response r.
ThenHandler(r) ==
    [service |-> "datadog", status |-> r.status, success |-> Ok(r.status),
     responseBody |-> r.body]

\* The catch-handler of the DataDog call: its value for an error.
CatchHandler(message) ==
    [service |-> "datadog", status |-> 0, success |-> FALSE, error |-> message]

\* The DataDog call answers with the HTTP response r.
DataDogResponds(r) ==
    /\ primary.state = "pending"
    /\ primary.sent
    /\ primary' = [primary EXCEPT !.state = "settled", !.answer = r, !.value = ThenHandler(r)]
    /\ UNCHANGED <<env, suspended, request, pc, requestId, forward, secondary, outbound,
                   results, response, served>>

\* The DataDog call fails without a response (a network error, or a URL that
\* fetch cannot parse).
DataDogFails(message) ==
    /\ primary.state = "pending"
    /\ primary' = [primary EXCEPT !.state = "settled",
                                  !.answer = [status |-> 0, error |-> message],
                                  !.value = CatchHandler(message)]
    /\ UNCHANGED <<env, suspended, request, pc, requestId, forward, secondary, outbound,
                   results, response, served>>

\* The Firetiger call answers: forwardToFiretiger returns its outcome.
FiretigerResponds(status) ==
    /\ secondary.state = "pending"
    /\ secondary' = [secondary EXCEPT
                        !.state = "settled",
                        !.answer = [status |-> status],
                        !.value = [service |-> "firetiger", status |-> status,
                                   success |-> Ok(status), format |-> "otel-http"]]
    /\ UNCHANGED <<env, suspended, request, pc, requestId, forward, primary, outbound,
                   results, response, served>>

\* The Firetiger call throws: forwardToFiretiger's catch block returns.
FiretigerFails(message) ==
    /\ secondary.state = "pending"
    /\ secondary' = [secondary EXCEPT
                        !.state = "settled",
                        !.answer = [status |-> 0, error |-> message],
                        !.value = [service |-> "firetiger", error |-> message,
                                   success |-> FALSE, format |-> "otel-http"]]
    /\ UNCHANGED <<env, suspended, request, pc, requestId, forward, primary, outbound,
                   results, response, served>>

\* The promises handed to Promise.allSettled.
Promises == IF secondary.state = "none" THEN <<primary>> ELSE <<primary, secondary>>

\* Mutant: the join resolves only when every call has succeeded.
AllSucceeded(promises) ==
    \A i \in 1..Len(promises) : promises[i].state = "settled" /\ promises[i].value.success

\* Mutant: only promises[0] is awaited.
FirstSettled(promises) == promises[1].state = "settled"

\* Promise.allSettled(promises) resolves once every promise has settled.
AllSettled(promises) == \A i \in 1..Len(promises) : promises[i].state = "settled"

\* `${ddResult.value?.status || ddResult.reason}`: the promise is fulfilled, so
\* ddResult.reason is undefined.
FailureText(value) == IF value.status # 0 THEN ToString(value.status) ELSE "undefined"

\* Mutant: the status of the DataDog response is not handed on.
PrimaryResponseOk200(ddResult) ==
    IF ddResult.success
    THEN Response(ddResult.responseBody, 200, getCORSHeaders)
    ELSE Response(<<"DataDog request failed: ", FailureText(ddResult)>>, 500, getCORSHeaders)

\* Mutant: every HTTP response of DataDog is handed on, successful or not.
PrimaryResponsePassAll(ddResult) ==
    IF ddResult.status # 0
    THEN Response(IF ddResult.success THEN ddResult.responseBody ELSE <<>>,
                  ddResult.status, getCORSHeaders)
    ELSE Response(<<"DataDog request failed: ", FailureText(ddResult)>>, 500, getCORSHeaders)

\* The Response built from results[0]; responseBody || '' is responseBody.
PrimaryResponse(ddResult) ==
    IF ddResult.success
    THEN Response(ddResult.responseBody, ddResult.status, getCORSHeaders)
    ELSE Response(<<"DataDog request failed: ", FailureText(ddResult)>>, 500, getCORSHeaders)

\* Mutant: the request fails when any of the results is a failure.
CallerResponseAllOk(rs) ==
    IF \A i \in 1..Len(rs) : rs[i].success
    THEN PrimaryResponse(rs[1])
    ELSE Response(<<"Forwarding failed">>, 500, getCORSHeaders)

\* const ddResult = results[0], and the Response the handler returns for it.
CallerResponse(rs) == PrimaryResponse(rs[1])

\* The continuation of await Promise.allSettled(promises): the response.
allSettled ==
    /\ pc = "join"
    /\ AllSettled(Promises)
    /\ results' = [i \in 1..Len(Promises) |-> Promises[i].value]
    /\ Reply(CallerResponse(results'))
    /\ UNCHANGED <<env, suspended, request, requestId, forward, primary, secondary, outbound, served>>

\* The worker takes the next request: nothing of the last one is kept.
NextRequest ==
    /\ pc = "done"
    /\ served + 1 < MaxRequests
    /\ served' = served + 1
    /\ pc' = "start"
    /\ request' = NoRequest
    /\ requestId' = NULL
    /\ forward' = NULL
    /\ primary' = NoCall
    /\ secondary' = NoCall
    /\ outbound' = <<>>
    /\ results' = <<>>
    /\ response' = NoResponse
    /\ UNCHANGED <<env, suspended>>

Next ==
    \/ \E req \in Requests, id \in RequestIds : fetch(req, id)
    \/ handleDataDogProxy
    \/ \E r \in PrimaryResponses : DataDogResponds(r)
    \/ \E message \in NetworkErrors : DataDogFails(message)
    \/ \E status \in SecondaryStatuses : FiretigerResponds(status)
    \/ \E message \in NetworkErrors : FiretigerFails(message)
    \/ allSettled
    \/ NextRequest

Spec == Init /\ [][Next]_vars

\* The DataDog call settles: the promise of fetch resolves or rejects.
PrimarySettles ==
    \/ \E r \in PrimaryResponses : DataDogResponds(r)
    \/ \E message \in NetworkErrors : DataDogFails(message)

\* The Firetiger call settles.
SecondarySettles ==
    \/ \E status \in SecondaryStatuses : FiretigerResponds(status)
    \/ \E message \in NetworkErrors : FiretigerFails(message)

\* await request.text() resolves and the handler runs on. Under Next this step
\* is the step handleDataDogProxy, which is enabled in every state with
\* pc = "readBody": each of its branches sets the next state.
BodyRead == pc = "readBody" /\ pc' \in {"join", "done"}

\* The worker under the assumption that the runtime resumes every
\* continuation that is ready (the body read, the join) and that every
\* outbound call launched settles at last.
SpecLive ==
    /\ Init
    /\ [][Next]_vars
    /\ WF_pc(BodyRead)
    /\ WF_vars(PrimarySettles)
    /\ WF_vars(SecondarySettles)
    /\ WF_vars(allSettled)

-----------------------------------------------------------------------------
(* Two requests handled at the same time *)

\* The configuration of the worker that handles two requests at a time.
PairEnvs ==
    {[DD_FORWARD_ENABLED |-> NULL,
      FIRETIGER_ENDPOINT |-> <<"https://ingest.firetiger.example/v1/logs">>,
      FIRETIGER_API_KEY  |-> <<"ft-key">>]}

\* The requests it takes: two proxied requests that differ in form, site and
\* body, and a health check.
PairRequests ==
    {[method |-> "POST", pathname |-> <<"/", "api", "/", "v2">>,
      search |-> <<"?">> \o FwdLogs \o <<"&", "site", "=", "datadoghq.eu">>,
      siteHeader |-> NULL, body |-> BodyLogs],
     [method |-> "POST", pathname |-> <<"/", "v1", "/", "input", "/", "tok">>,
      search |-> <<>>, siteHeader |-> NULL, body |-> BodyNullLog],
     [method |-> "GET", pathname |-> HealthPath, search |-> <<>>,
      siteHeader |-> NULL, body |-> <<>>]}

InitPair ==
    /\ env \in PairEnvs
    /\ request = NoRequest
    /\ pc = "start"
    /\ requestId = NULL
    /\ forward = NULL
    /\ primary = NoCall
    /\ secondary = NoCall
    /\ outbound = <<>>
    /\ results = <<>>
    /\ response = NoResponse
    /\ served = 0
    /\ suspended = NoContext

\* The running handler stands at an await, has returned or has not started:
\* the event loop runs the handler of the other request, from where it stood.
Switch ==
    /\ suspended' = Context
    /\ request' = suspended.request
    /\ pc' = suspended.pc
    /\ requestId' = suspended.requestId
    /\ forward' = suspended.forward
    /\ primary' = suspended.primary
    /\ secondary' = suspended.secondary
    /\ outbound' = suspended.outbound
    /\ results' = suspended.results
    /\ response' = suspended.response
    /\ UNCHANGED <<env, served>>

NextPair ==
    \/ \E req \in PairRequests, id \in RequestIds : fetch(req, id)
    \/ handleDataDogProxy
    \/ PrimarySettles
    \/ SecondarySettles
    \/ allSettled
    \/ NextRequest
    \/ Switch

SpecPair == InitPair /\ [][NextPair]_vars

-----------------------------------------------------------------------------
(* The secondary path on its own: forwardToFiretiger over the body texts *)

\* A proxied request with the body text body, the secondary sink configured,
\* at the call of forwardToFiretiger.
InitConvert ==
    /\ env = [DD_FORWARD_ENABLED |-> NULL,
              FIRETIGER_ENDPOINT |-> <<"https://ingest.firetiger.example/v1/logs">>,
              FIRETIGER_API_KEY  |-> <<"ft-key">>]
    /\ request \in [method : {"POST"}, pathname : {<<"/", "api", "/", "v2", "/", "logs">>},
                    search : {<<>>}, siteHeader : {NULL}, body : ConvertBodies]
    /\ requestId \in RequestIds
    /\ pc = "secondary"
    /\ forward = request.pathname
    /\ primary = NoCall
    /\ secondary = NoCall
    /\ outbound = <<>>
    /\ results = <<>>
    /\ response = NoResponse
    /\ served = 0
    /\ suspended = NoContext

\* promises.push(forwardToFiretiger(body, env.FIRETIGER_ENDPOINT,
\* env.FIRETIGER_API_KEY, requestId))
PushSecondary ==
    /\ pc = "secondary"
    /\ secondary' = forwardToFiretiger(request.body, env.FIRETIGER_ENDPOINT,
                                       env.FIRETIGER_API_KEY, requestId)
    /\ outbound' = outbound \o Sent(NoCall, secondary')
    /\ pc' = "pushed"
    /\ UNCHANGED <<env, suspended, request, requestId, forward, primary, results, response, served>>

NextConvert == PushSecondary

SpecConvert == InitConvert /\ [][NextConvert]_vars

-----------------------------------------------------------------------------
(* Properties *)

\* The request classes, read off the request itself.
IsPreflight(req) == req.method = "OPTIONS"

IsHealth(req) == req.pathname = HealthPath

HasForward(req) == req.method = "POST" /\ Truthy(searchParams_get(req, "ddforward"))

IsLegacy(req) ==
    \/ StartsWith(req.pathname, <<"/", "api", "/", "v2", "/">>)
    \/ StartsWith(req.pathname, <<"/", "v1", "/", "input", "/">>)

\* The request is handed to handleDataDogProxy.
IsProxied(req) ==
    /\ req # NoRequest
    /\ ~IsPreflight(req)
    /\ ~IsHealth(req)
    /\ HasForward(req) \/ IsLegacy(req)

IsUnmatched(req) ==
    /\ req # NoRequest
    /\ ~IsPreflight(req)
    /\ ~IsHealth(req)
    /\ ~HasForward(req)
    /\ ~IsLegacy(req)

\* The forwarding target handed to handleDataDogProxy.
Target(req) ==
    IF HasForward(req) THEN searchParams_get(req, "ddforward") ELSE req.pathname \o req.search

\* The selected site is a key of the site-to-origin table.
SiteInTable(req) == Len(Site(req)) = 1 /\ Site(req)[1] \in DOMAIN DD_INTAKE_ORIGINS

\* The secondary endpoint or the secondary credential is missing.
SecondaryUnconfigured ==
    \/ env.FIRETIGER_ENDPOINT \in {NULL, <<>>}
    \/ env.FIRETIGER_API_KEY \in {NULL, <<>>}

\* The primary call has settled with an HTTP response / a successful one.
PrimaryAnswered == primary.state = "settled" /\ primary.answer.status # 0

PrimarySucceeded ==
    primary.state = "settled" /\ primary.answer.status >= 200 /\ primary.answer.status <= 299

PrimaryFailed == primary.state = "settled" /\ ~PrimarySucceeded

\* a occurs in b as a run of consecutive tokens.
IsInfix(a, b) == \E i \in 0..(Len(b) - Len(a)) : SubSeq(b, i + 1, i + Len(a)) = a

\* C1: once both sinks were dispatched, the response to the caller is the one
\* the primary outcome alone dictates, whatever the secondary sink did (HTTP
\* success, HTTP error, network exception, failed conversion).
C1_SecondaryIsolation ==
    (pc = "done" /\ primary.state = "settled")
        => response = PrimaryResponse(primary.value)

C1_Witness ==
    /\ pc = "done"
    /\ PrimarySucceeded
    /\ secondary.state = "settled"
    /\ ~secondary.value.success
    /\ response.status = primary.answer.status

\* C2 (as claimed): a proxied request under the kill switch makes no outbound
\* call and is answered exactly 200 "OK", whatever its forwarding target.
C2_KillSwitchClaim ==
    (IsProxied(request) /\ env.DD_FORWARD_ENABLED = <<"false">>)
        => /\ outbound = <<>>
           /\ pc = "done" => (response.status = 200 /\ response.body = <<"OK">>)

\* C3 (as claimed): a proxied request whose site is no key of the table is
\* answered 500 and makes neither outbound call.
C3_UnresolvableSiteClaim ==
    (IsProxied(request) /\ ~SiteInTable(request))
        => /\ outbound = <<>>
           /\ pc = "done" => response.status = 500

\* C4: with the secondary endpoint or credential missing, no call goes to the
\* secondary sink, and the response is the one of the primary outcome alone.
C4_SecondaryUnconfigured ==
    SecondaryUnconfigured
        => /\ secondary = NoCall
           /\ \A i \in 1..Len(outbound) : outbound[i].to # "firetiger"
           /\ (pc = "done" /\ primary.state = "settled")
                  => /\ results = <<primary.value>>
                     /\ response = PrimaryResponse(primary.value)

C4_Witness ==
    /\ pc = "done"
    /\ Truthy(env.FIRETIGER_ENDPOINT)
    /\ ~Truthy(env.FIRETIGER_API_KEY)
    /\ PrimarySucceeded
    /\ Len(outbound) = 1

\* C5: a successful HTTP response of the primary sink reaches the caller with
\* exactly its status and exactly its body text, the empty body included.
C5_PrimaryPassthrough ==
    (pc = "done" /\ PrimarySucceeded)
        => /\ response.status = primary.answer.status
           /\ response.body = primary.answer.body

C5_Witness ==
    /\ pc = "done"
    /\ PrimarySucceeded
    /\ primary.answer.status = 202
    /\ primary.answer.body = <<>>
    /\ response.body = <<>>

\* C6 (as claimed): when the primary call fails without an HTTP response, the
\* caller gets status 500 and a body that carries the failure description.
C6_NetworkFailureClaim ==
    (pc = "done" /\ primary.state = "settled" /\ primary.answer.status = 0)
        => /\ response.status = 500
           /\ IsInfix(primary.answer.error, response.body)

\* The forwarding target cannot be percent-decoded.
TargetMalformed(req) == IsProxied(req) /\ ~decodeURIComponent(Target(req)).ok

\* C7 (as claimed): 204 only for preflight, 404 only for unmatched routes, 500
\* only for primary failure or unresolvable site, otherwise 200 or the
\* primary's successful status; a non-2xx primary response always yields 500.
C7_StatusCodesClaim ==
    pc = "done"
        => /\ response.status = 204 => IsPreflight(request)
           /\ response.status = 404 => IsUnmatched(request)
           /\ response.status = 500
                  => PrimaryFailed \/ (IsProxied(request) /\ ~SiteInTable(request))
           /\ \/ response.status \in {200, 204, 404, 500}
              \/ PrimarySucceeded /\ response.status = primary.answer.status
           /\ (PrimaryAnswered /\ ~PrimarySucceeded) => response.status = 500

\* C7 (amended): 204 only for preflight or a passed-through primary 204, 404
\* only for unmatched routes, 500 only for primary failure, unresolvable site
\* or a forwarding target that cannot be percent-decoded, otherwise 200 or the
\* primary's successful status; a non-2xx primary response always yields 500.
C7_StatusCodes ==
    pc = "done"
        => /\ response.status = 204
                  => IsPreflight(request) \/ (PrimarySucceeded /\ primary.answer.status = 204)
           /\ response.status = 404 => IsUnmatched(request)
           /\ response.status = 500
                  => \/ PrimaryFailed
                     \/ IsProxied(request) /\ ~SiteInTable(request)
                     \/ TargetMalformed(request)
           /\ \/ response.status \in {200, 204, 404, 500}
              \/ PrimarySucceeded /\ response.status = primary.answer.status
           /\ (PrimaryAnswered /\ ~PrimarySucceeded) => response.status = 500

C7_Witness ==
    /\ pc = "done"
    /\ PrimaryAnswered
    /\ primary.answer.status = 503
    /\ response.status = 500

\* C8: no response is returned while an outbound call is in flight; when both
\* sinks were called, the response comes after both have settled and both
\* outcomes are observed, also when one of the calls ended in an exception.
C8_DualSinkJoin ==
    response # NoResponse
        => /\ primary.state # "pending"
           /\ secondary.state # "pending"
           /\ (primary.state = "settled" /\ secondary.state = "settled")
                  => results = <<primary.value, secondary.value>>

C8_Witness ==
    /\ response # NoResponse
    /\ Len(outbound) = 2
    /\ primary.answer.status = 0
    /\ secondary.answer.status = 200
    /\ results = <<primary.value, secondary.value>>

\* C9: an OPTIONS request, whatever its path, query and configuration, is
\* answered at once with 204, no body and the CORS headers, and makes no
\* outbound call.
C9_Preflight ==
    IsPreflight(request)
        => /\ pc = "done"
           /\ response = [status |-> 204, body |-> NULL, headers |-> getCORSHeaders]
           /\ outbound = <<>>
           /\ primary = NoCall
           /\ secondary = NoCall

C9_Witness ==
    /\ IsPreflight(request)
    /\ IsHealth(request)
    /\ Truthy(searchParams_get(request, "ddforward"))
    /\ env.DD_FORWARD_ENABLED = <<"false">>
    /\ response.status = 204

\* C10: a request that is neither OPTIONS, nor on the health path, nor a POST
\* with a non-empty ddforward, nor on a legacy path gets the fixed 404 and
\* makes no outbound call; so does a non-POST request that carries ddforward.
C10_Unmatched ==
    IsUnmatched(request)
        => /\ pc = "done"
           /\ response = [status |-> 404, body |-> NotFoundBody, headers |-> getCORSHeaders]
           /\ outbound = <<>>
           /\ primary = NoCall
           /\ secondary = NoCall

C10_Witness ==
    /\ request.method = "GET"
    /\ Truthy(searchParams_get(request, "ddforward"))
    /\ ~IsLegacy(request)
    /\ response.status = 404

\* C11: a request on /health that is not a preflight, whatever its method and
\* query and whatever the configuration, is answered at once with status 200
\* and a status document whose status is healthy; it never enters proxy
\* handling (no request id, no forwarding target, no sink call) and nothing
\* is sent out.
C11_HealthTerminal ==
    (IsHealth(request) /\ ~IsPreflight(request)) =>
        /\ pc = "done"
        /\ response.status = 200
        /\ response.body # NULL /\ response.body[1] = "status:healthy"
        /\ requestId = NULL /\ forward = NULL
        /\ primary = NoCall /\ secondary = NoCall
        /\ outbound = <<>>

\* A POST on /health with a ddforward parameter, kill switch active and the
\* secondary sink configured, has been answered.
C11_Witness ==
    /\ IsHealth(request) /\ HasForward(request)
    /\ env.DD_FORWARD_ENABLED = <<"false">> /\ ~SecondaryUnconfigured
    /\ pc = "done" /\ response.status = 200

\* The fixed CORS header set, as the responses are to carry it.
CorsHeaderSet ==
    {<<"Access-Control-Allow-Origin", "*">>,
     <<"Access-Control-Allow-Methods", "GET, POST, PUT, DELETE, OPTIONS">>,
     <<"Access-Control-Allow-Headers", "Content-Type, Authorization, X-Requested-With">>,
     <<"Access-Control-Max-Age", "86400">>}

\* C12: every response the handler returns, on every path (preflight, health,
\* kill-switch bypass, proxy success, proxy error 500, unmatched 404), carries
\* the whole fixed CORS header set.
C12_CorsEverywhere ==
    pc = "done" => CorsHeaderSet \subseteq response.headers

\* A proxied request whose primary call failed was answered 500 with the set.
C12_Witness ==
    /\ pc = "done" /\ IsProxied(request) /\ PrimaryFailed
    /\ response.status = 500
    /\ CorsHeaderSet \subseteq response.headers

\* The secondary call has been pushed: the converter has run on the body.
Pushed == pc = "pushed"

\* What convertDataDogToOTEL returned (ok = FALSE: it threw).
Envelope == secondary.payload

\* The body text decoded as JSON.
Decoded == JSONParse(request.body)

\* The decoded body is an object holding an array under logs.
HoldsEventArray ==
    /\ Decoded.ok
    /\ Decoded.v.t = "object"
    /\ \E i \in 1..Len(Decoded.v.k) : Decoded.v.k[i] = "logs" /\ Decoded.v.v[i].t = "array"

\* That array.
EventArray == GetProp(Decoded.v, "logs").v.a

\* The Source Events the records of the envelope were made from.
SourceEvents == DdLogs(request.body).a

\* The severity pair of a record.
SeverityPair(record) == <<record.severityNumber, record.severityText>>

InfoPair == <<JNum(9), JStr(<<"INFO">>)>>

\* C13 (as claimed): for every body that is a JSON object holding an array of
\* events, the envelope has as many records as the array has events (none for
\* the empty array) and the i-th record is the one made from the i-th event.
C13_CountAndOrderClaim ==
    (Pushed /\ HoldsEventArray) =>
        /\ Envelope.ok
        /\ Len(Envelope.logRecords) = Len(EventArray)
        /\ \A i \in 1..Len(EventArray) :
              Envelope.logRecords[i] = OtelLog(EventArray[i], requestId)

\* C14 (as claimed): the severity pair of every record is (5, DEBUG),
\* (9, INFO), (13, WARN), (17, ERROR) when the level of its event is exactly
\* the token debug, info, warn, error, and (9, INFO) for every other level and
\* for an absent one.
C14_SeverityClaim ==
    (Pushed /\ Envelope.ok) =>
        \A i \in 1..Len(Envelope.logRecords) :
            LET level == GetProp(SourceEvents[i], "level").v
                pair  == SeverityPair(Envelope.logRecords[i])
            IN  CASE level = JStr(<<"debug">>) -> pair = <<JNum(5), JStr(<<"DEBUG">>)>>
                  [] level = JStr(<<"info">>)  -> pair = InfoPair
                  [] level = JStr(<<"warn">>)  -> pair = <<JNum(13), JStr(<<"WARN">>)>>
                  [] level = JStr(<<"error">>) -> pair = <<JNum(17), JStr(<<"ERROR">>)>>
                  [] OTHER -> pair = InfoPair

\* The attributes of a record that carry the key key.
AttributesKeyed(record, key) ==
    {a \in 1..Len(record.attributes) : record.attributes[a].key = key}

\* The attribute the claim expects for a field that is no core field.
ExpectedContext(key, value) ==
    CASE value.t = "string"  -> Attribute(<<"dd.", key>>, "stringValue", value)
      [] value.t = "number"  -> Attribute(<<"dd.", key>>, "doubleValue", value)
      [] value.t = "boolean" -> Attribute(<<"dd.", key>>, "boolValue", value)
      [] OTHER -> Attribute(<<"dd.", key>>, "stringValue", JStr(JSONStringify(value)))

C16_RawFallbackClaim ==
    (Pushed /\ ~Decoded.ok) =>
        /\ Envelope.ok
        /\ Len(Envelope.logRecords) = 1
        /\ SeverityPair(Envelope.logRecords[1]) = InfoPair
        /\ Envelope.logRecords[1].body = JStr(request.body)

C18_NeverFailsClaim ==
    Pushed =>
        /\ Envelope.ok
        /\ secondary.sent
        /\ \E i \in 1..Len(outbound) :
              outbound[i].to = "firetiger" /\ outbound[i].payload = Envelope

\* C19 (as claimed): a body that decodes as JSON to anything but an object
\* holding an array under logs is one Source Event: the envelope holds exactly
\* one record, the one made from the decoded value.
C19_BatchShapeClaim ==
    (Pushed /\ Decoded.ok /\ ~HoldsEventArray) =>
        /\ Envelope.ok
        /\ Len(Envelope.logRecords) = 1
        /\ Envelope.logRecords[1] = OtelLog(Decoded.v, requestId)

\* The event has the field, whatever its value.
HasField(event, field) ==
    event.t = "object" /\ \E j \in 1..Len(event.k) : event.k[j] = field

\* The record carries the value of the event's field under key.
Carries(record, event, field, key) ==
    \E a \in 1..Len(record.attributes) :
        /\ record.attributes[a].key = <<key>>
        /\ record.attributes[a].value = GetProp(event, field).v

\* C20 (as claimed): a record whose Source Event has the field service carries
\* a service.name attribute with its value; likewise deployment.environment
\* for env and service.version for version; for every value of the field.
C20_CoreFieldsClaim ==
    (Pushed /\ Envelope.ok) =>
        \A i \in 1..Len(Envelope.logRecords) :
            LET event  == SourceEvents[i]
                record == Envelope.logRecords[i]
            IN  /\ HasField(event, "service") => Carries(record, event, "service", "service.name")
                /\ HasField(event, "env") =>
                      Carries(record, event, "env", "deployment.environment")
                /\ HasField(event, "version") =>
                      Carries(record, event, "version", "service.version")

\* The instant a timestamp field names, in epoch milliseconds: ok = FALSE when
\* the field is absent or is no date.
Instant(timestamp) ==
    CASE timestamp.t = "number" -> [ok |-> TRUE, ms |-> timestamp.n]
      [] timestamp = JStr(<<"1970-01-01T00:00:01.500Z">>) -> [ok |-> TRUE, ms |-> 1500]
      [] OTHER -> [ok |-> FALSE, ms |-> 0]

\* The decimal texts of the instants of the inputs, in nanoseconds.
DecimalTicks == {<<ToString(ms * 1000000)>> : ms \in {0, 1500, Now}}

\* C21 (as claimed): timeUnixNano of every record is a decimal integer string:
\* the instant of the event's timestamp field in epoch milliseconds times
\* 1,000,000 when the field is present and parseable, and the capture time in
\* epoch milliseconds times 1,000,000 in every other case.
C21_TimestampClaim ==
    (Pushed /\ Envelope.ok) =>
        \A i \in 1..Len(Envelope.logRecords) :
            LET instant == Instant(GetProp(SourceEvents[i], "timestamp").v)
                ticks   == Envelope.logRecords[i].timeUnixNano
            IN  /\ ticks \in DecimalTicks
                /\ ticks = IF instant.ok THEN <<ToString(instant.ms * 1000000)>>
                           ELSE <<ToString(Now * 1000000)>>

\* The keys of the attributes of a record, in the order of the attributes.
Keys(record) == [a \in 1..Len(record.attributes) |-> record.attributes[a].key]

\* C22: in every record the converter yields, no two attributes share a key,
\* the core keys, the dd.-prefixed keys and the three proxy keys counted
\* together, also when fields of the event are named like the fixed keys.
C22_UniqueKeys ==
    (Pushed /\ Envelope.ok) =>
        \A i \in 1..Len(Envelope.logRecords) :
            \A a, b \in 1..Len(Envelope.logRecords[i].attributes) :
                Keys(Envelope.logRecords[i])[a] = Keys(Envelope.logRecords[i])[b] => a = b

\* An event with a service and fields named service.name, proxy.source and
\* dd.usr was converted: its record carries service.name, dd.service.name,
\* dd.proxy.source and proxy.source.
C22_Witness ==
    /\ Pushed /\ Envelope.ok
    /\ Len(SourceEvents) = 1
    /\ SourceEvents[1].t = "object"
    /\ SourceEvents[1].k = <<"service", "service.name", "proxy.source", "dd.usr", "usr">>
    /\ {<<"service.name">>, <<"dd.", "service.name">>, <<"dd.", "proxy.source">>,
        <<"proxy.source">>, <<"dd.", "dd.usr">>, <<"dd.", "usr">>}
           \subseteq {Keys(Envelope.logRecords[1])[a] : a \in 1..Len(Envelope.logRecords[1].attributes)}

\* The Source Events as the body writes them, every object with its fields in
\* the order of the text.
WrittenEvents ==
    IF Decoded.ok /\ request.body \notin {BodyLogs, BodyNullLog}
    THEN ParsedLogs([ok |-> TRUE, v |-> TextValue(request.body)], RawLog(request.body)).a
    ELSE SourceEvents

\* The names 0..n-1.
Indices(n) == [i \in 1..n |-> ToString(i - 1)]

\* The order in which JavaScript enumerates the own properties of an event:
\* of an object the names that are integers, ascending, then the other names
\* as written; of an array or a string its indices; of a number or a boolean
\* nothing.
EnumerationOrder(event) ==
    CASE event.t = "object" ->
            SelectSeq(Indices(MaxIndex + 1), LAMBDA n : \E j \in 1..Len(event.k) : event.k[j] = n)
            \o SelectSeq(event.k, LAMBDA k : \A n \in 0..MaxIndex : ToString(n) # k)
      [] event.t = "array"  -> Indices(Len(event.a))
      [] event.t = "string" -> Indices(Len(event.s))
      [] OTHER -> <<>>

FixedCoreKeys == <<<<"service.name">>, <<"deployment.environment">>, <<"service.version">>>>

FixedProxyKeys == <<<<"proxy.source">>, <<"proxy.request_id">>, <<"proxy.timestamp">>>>

\* The keys of a record in the claimed order, names being the names of the
\* fields of its event: the core keys the record carries, the key dd.<name> of
\* every name that is no core field, the three proxy keys.
KeysInOrder(record, names) ==
    LET context == SelectSeq(names, LAMBDA k : k \notin {"message", "timestamp", "level",
                                                         "service", "env", "version"})
    IN  SelectSeq(FixedCoreKeys,
                  LAMBDA k : \E a \in 1..Len(record.attributes) :
                                /\ record.attributes[a].key = k
                                /\ \A b \in 1..(a - 1) : record.attributes[b].key[1] # "dd.")
        \o [j \in 1..Len(context) |-> <<"dd.", context[j]>>]
        \o FixedProxyKeys

\* The record carries the request's identifier in proxy.request_id, the
\* second of its last three attributes.
CarriesRequestId(record) ==
    /\ Len(record.attributes) >= 3
    /\ record.attributes[Len(record.attributes) - 1].key = <<"proxy.request_id">>
    /\ record.attributes[Len(record.attributes) - 1].value = JStr(requestId)

\* C23 (as claimed): the attributes of every record are the emitted core
\* attributes, then the dd. attributes in the order the Source Event writes its
\* fields, then proxy.source, proxy.request_id and proxy.timestamp, the
\* request's identifier in proxy.request_id.
C23_WrittenOrderClaim ==
    (Pushed /\ Envelope.ok) =>
        \A i \in 1..Len(Envelope.logRecords) :
            /\ Keys(Envelope.logRecords[i])
                 = KeysInOrder(Envelope.logRecords[i],
                               IF WrittenEvents[i].t = "object" THEN WrittenEvents[i].k ELSE <<>>)
            /\ CarriesRequestId(Envelope.logRecords[i])

\* C23: the attributes of every record are the emitted core attributes, then
\* the dd. attributes in the order JavaScript enumerates the own properties of
\* the Source Event (names that are integers first, ascending, then the other
\* names as written; the indices of an array or a string), then proxy.source,
\* proxy.request_id and proxy.timestamp, the request's identifier in
\* proxy.request_id.
C23_EnumerationOrder ==
    (Pushed /\ Envelope.ok) =>
        \A i \in 1..Len(Envelope.logRecords) :
            /\ Keys(Envelope.logRecords[i])
                 = KeysInOrder(Envelope.logRecords[i], EnumerationOrder(WrittenEvents[i]))
            /\ CarriesRequestId(Envelope.logRecords[i])

\* An event written with the fields usr, 7 and 2 was converted: its record
\* carries dd.2, dd.7, dd.usr and the three proxy attributes, in this order.
C23_Witness ==
    /\ Pushed /\ Envelope.ok
    /\ Len(WrittenEvents) = 1
    /\ WrittenEvents[1].t = "object"
    /\ WrittenEvents[1].k = <<"usr", "7", "2">>
    /\ Keys(Envelope.logRecords[1])
         = <<<<"dd.", "2">>, <<"dd.", "7">>, <<"dd.", "usr">>>> \o FixedProxyKeys

\* The outbound calls of the request made to the sink to.
CallsTo(to) == {c \in 1..Len(outbound) : outbound[c].to = to}

\* C24: over one inbound request the primary sink is called at most once and
\* the secondary sink at most once, at most two outbound calls in all, whatever
\* the outcomes of the calls.
C24_NoRetries ==
    /\ Cardinality(CallsTo("datadog")) <= 1
    /\ Cardinality(CallsTo("firetiger")) <= 1
    /\ Len(outbound) <= 2

\* A request was answered after both of its calls failed: each sink was
\* called once.
C24_Witness ==
    /\ pc = "done"
    /\ primary.state = "settled" /\ ~primary.value.success
    /\ secondary.state = "settled" /\ secondary.sent /\ ~secondary.value.success
    /\ Cardinality(CallsTo("datadog")) = 1
    /\ Cardinality(CallsTo("firetiger")) = 1

\* encodeURIComponent of a text of the inputs: the reserved characters as
\* escapes.
RECURSIVE encodeURIComponent(_)
encodeURIComponent(s) ==
    IF s = <<>> THEN <<>>
    ELSE (CASE s[1] = "/" -> <<"%", "2", "F">>
            [] s[1] = "%" -> <<"%", "2", "5">>
            [] s[1] = "&" -> <<"%", "2", "6">>
            [] s[1] = "+" -> <<"%", "2", "B">>
            [] s[1] = ":" -> <<"%", "3", "A">>
            [] s[1] = "=" -> <<"%", "3", "D">>
            [] s[1] = "?" -> <<"%", "3", "F">>
            [] OTHER -> <<s[1]>>)
         \o encodeURIComponent(Tail(s))

\* The request is in the legacy form: a legacy path and no ddforward parameter.
InLegacyForm(req) ==
    /\ req # NoRequest
    /\ IsLegacy(req)
    /\ searchParams_get(req, "ddforward") = NULL

\* The same request in the ddforward form, its forwarding target the path and
\* query of the legacy request.
InForwardForm(req) ==
    [req EXCEPT !.pathname = <<"/">>,
                !.search = <<"?", "ddforward", "=">> \o encodeURIComponent(req.pathname \o req.search)]

\* C25 (as claimed): a request on a legacy path with path and query T, of any
\* method, is handled like the same request in the ddforward form with the
\* target T: the same routing decision, the same target, the same site and so
\* the same primary URL, the origin of the site followed by T.
C25_LegacyEquivalenceClaim ==
    InLegacyForm(request) =>
        /\ searchParams_get(InForwardForm(request), "ddforward") = request.pathname \o request.search
        /\ Route(InForwardForm(request)).kind = Route(request).kind
        /\ Route(request).kind = "proxy" =>
               /\ Route(InForwardForm(request)).ddforward = Route(request).ddforward
               /\ Site(InForwardForm(request)) = Site(request)
               /\ primary.state # "none" =>
                      primary.url = IntakeOrigin(Site(InForwardForm(request)))
                                    \o request.pathname \o request.search

\* The site parameter of the request is present and not empty.
HasSiteParam(req) == searchParams_get(req, "site") \notin {NULL, <<>>}

\* The proxy handler of the request has resolved the site: the request was
\* proxied, its target decoded, the kill switch off.
SiteResolved ==
    /\ pc \in {"join", "done"}
    /\ IsProxied(request)
    /\ forward # NULL
    /\ ~KillSwitch(env)

\* The request was handled with the site site: the primary call went to the
\* origin of the site followed by the target or, the site having no origin,
\* no call was made and the answer is 500, naming the site.
HandledWithSite(site) ==
    IF Truthy(IntakeOrigin(site))
    THEN primary.state # "none" /\ primary.url = IntakeOrigin(site) \o forward
    ELSE /\ primary = NoCall
         /\ response.status = 500
         /\ response.body = <<"Unsupported DataDog site: ">> \o site

\* C26 (as claimed): the site is the site parameter when present and not
\* empty, else the X-Datadog-Site header when present, else us5.datadoghq.com;
\* a parameter that is not in the table is not replaced by the header or the
\* default.
C26_SitePrecedenceClaim ==
    SiteResolved =>
        HandledWithSite(IF HasSiteParam(request) THEN searchParams_get(request, "site")
                        ELSE IF request.siteHeader # NULL THEN request.siteHeader
                        ELSE <<"us5.datadoghq.com">>)

\* C26: the site is the site parameter when present and not empty, else the
\* X-Datadog-Site header when present and not empty, else us5.datadoghq.com; a
\* parameter that is not in the table is not replaced by the header or the
\* default.
C26_SitePrecedence ==
    SiteResolved =>
        HandledWithSite(IF HasSiteParam(request) THEN searchParams_get(request, "site")
                        ELSE IF request.siteHeader \notin {NULL, <<>>} THEN request.siteHeader
                        ELSE <<"us5.datadoghq.com">>)

\* A request with the parameter site=unknown.example.com and the header
\* datadoghq.eu was answered: no call was made, the answer names the parameter.
C26_Witness ==
    /\ SiteResolved
    /\ searchParams_get(request, "site") = <<"unknown.example.com">>
    /\ request.siteHeader = <<"datadoghq.eu">>
    /\ primary = NoCall
    /\ response.body = <<"Unsupported DataDog site: ", "unknown.example.com">>

\* C27: in a proxied request with the secondary sink configured, the step that
\* launches the secondary call is the step that launches the primary call: the
\* primary call goes on the wire first and has not settled when the secondary
\* call is launched, so neither launch waits for the outcome of the other.
C27_LaunchedTogether ==
    [][(secondary = NoCall /\ secondary' # NoCall) =>
          /\ primary = NoCall
          /\ primary'.state = "pending"
          /\ primary'.answer = NoAnswer
          /\ (primary'.sent /\ secondary'.sent) =>
                 /\ Len(outbound') = 2
                 /\ outbound'[1].to = "datadog"
                 /\ outbound'[2].to = "firetiger"]_vars

\* Both calls are in flight at once: each is on the wire, none has settled.
C27_Witness ==
    /\ pc = "join"
    /\ primary.state = "pending" /\ primary.sent
    /\ secondary.state = "pending" /\ secondary.sent
    /\ Len(outbound) = 2

\* The proxy handler of the request has tested the kill switch: the request
\* was proxied and its target decoded.
KillSwitchTested ==
    /\ pc \in {"join", "done"}
    /\ IsProxied(request)
    /\ forward # NULL

\* The request took the kill-switch bypass: 200 OK and no outbound call.
Bypassed ==
    /\ pc = "done"
    /\ response.status = 200 /\ response.body = <<"OK">>
    /\ primary = NoCall /\ secondary = NoCall /\ outbound = <<>>

\* C29: under one configuration, the health document says forwarding is
\* disabled exactly when DD_FORWARD_ENABLED is the string false, which is
\* exactly when a proxied request that reaches the kill-switch test takes the
\* bypass; and it says the secondary sink is configured exactly when endpoint
\* and credential are both set, which is exactly when a proxied request that
\* launches the primary call attempts the secondary call.
C29_HealthAgrees ==
    /\ HealthBody(env)[2] = "dd_forward_enabled:false" <=> env.DD_FORWARD_ENABLED = <<"false">>
    /\ HealthBody(env)[3] = "firetiger_configured:true"
           <=> (env.FIRETIGER_ENDPOINT \notin {NULL, <<>>} /\ env.FIRETIGER_API_KEY \notin {NULL, <<>>})
    /\ (pc = "done" /\ request # NoRequest /\ ~IsPreflight(request) /\ IsHealth(request)) =>
           response.body = HealthBody(env)
    /\ KillSwitchTested => (Bypassed <=> HealthBody(env)[2] = "dd_forward_enabled:false")
    /\ (KillSwitchTested /\ primary # NoCall) =>
           (secondary # NoCall <=> HealthBody(env)[3] = "firetiger_configured:true")

\* With DD_FORWARD_ENABLED unset and both secondary variables set, a proxied
\* request has launched both calls: the health document of this configuration
\* says forwarding enabled and secondary configured.
C29_Witness ==
    /\ KillSwitchTested
    /\ env.DD_FORWARD_ENABLED = NULL
    /\ primary # NoCall /\ secondary # NoCall
    /\ HealthBody(env) = <<"status:healthy", "dd_forward_enabled:true", "firetiger_configured:true">>

\* Proxy handling of the request raised an error: the target could not be
\* decoded, or the site has no origin.
ProxyErrorRaised ==
    /\ IsProxied(request)
    /\ \/ forward = NULL
       \/ ~KillSwitch(env) /\ ~Truthy(IntakeOrigin(Site(request)))

\* C30: when every outbound call launched settles at last, every request the
\* worker takes is answered at last, and answered once: the response is set in
\* the step that ends the request and stays until the next request is taken;
\* a request whose proxy handling raised an error is answered 500.
C30_AnsweredOnce ==
    /\ (request # NoRequest) ~> (pc = "done" /\ response # NoResponse)
    /\ [][response' # response =>
              \/ response = NoResponse /\ pc # "done" /\ pc' = "done"
              \/ response' = NoResponse /\ pc = "done" /\ pc' = "start"]_vars
    /\ [](pc = "done" <=> response # NoResponse)
    /\ []((pc = "done" /\ ProxyErrorRaised) => response.status = 500)

\* A proxied request whose target could not be decoded was answered 500.
C30_Witness ==
    /\ pc = "done"
    /\ IsProxied(request)
    /\ forward = NULL
    /\ response.status = 500
    /\ response.body = <<"URI malformed">>

\* The request that runs, with all that its handler holds.
Running ==
    [request |-> request, pc |-> pc, requestId |-> requestId, forward |-> forward,
     primary |-> primary, secondary |-> secondary, outbound |-> outbound,
     results |-> results, response |-> response]

\* The outbound calls the handler c has made follow from its own request and
\* identifier: the primary call goes to the origin of the request's site
\* followed by its target, with the request's body; the secondary call carries
\* the conversion of the request's body under the handler's identifier.
OwnCalls(c) ==
    /\ c.primary # NoCall =>
           /\ c.primary.url = IntakeOrigin(Site(c.request)) \o c.forward
           /\ c.primary.body = c.request.body
    /\ c.secondary # NoCall =>
           /\ c.secondary.logData = c.request.body
           /\ c.secondary.payload = convertDataDogToOTEL(c.request.body, c.requestId)
    /\ c.outbound
         = (IF c.primary.sent
            THEN <<[to |-> "datadog", url |-> c.primary.url, body |-> c.primary.body]>>
            ELSE <<>>)
           \o (IF c.secondary # NoCall /\ c.secondary.sent
               THEN <<[to |-> "firetiger", url |-> env.FIRETIGER_ENDPOINT,
                       authorization |-> <<"Bearer ">> \o env.FIRETIGER_API_KEY,
                       payload |-> c.secondary.payload]>>
               ELSE <<>>)

\* The routing decision and the response of the handler c follow from its own
\* request, the configuration and the outcome of its own primary call.
OwnAnswer(c) ==
    /\ c.pc = "start" => c = NoContext
    /\ c.pc \in {"readBody", "join"} =>
           /\ IsProxied(c.request)
           /\ c.forward = decodeURIComponent(Target(c.request)).v
           /\ c.response = NoResponse
    /\ c.pc = "done" =>
           CASE IsPreflight(c.request) -> c.response.status = 204 /\ c.outbound = <<>>
             [] ~IsPreflight(c.request) /\ IsHealth(c.request) ->
                    c.response.status = 200 /\ c.response.body = HealthBody(env) /\ c.outbound = <<>>
             [] IsUnmatched(c.request) -> c.response.status = 404 /\ c.outbound = <<>>
             [] IsProxied(c.request) ->
                    IF c.primary = NoCall
                    THEN c.outbound = <<>> /\ c.response.status \in {200, 500}
                    ELSE /\ c.primary.state = "settled"
                         /\ c.results[1] = c.primary.value
                         /\ c.response = PrimaryResponse(c.primary.value)

\* C28: when two requests are handled at the same time, in every interleaving
\* of their steps the routing, the outbound calls, the use of the identifier
\* and the response of each follow from its own request, the configuration and
\* its own outcomes; a step of one request leaves the other as it was, passing
\* control from one to the other exchanges them whole, and the configuration
\* never changes.
C28_NoInterference ==
    /\ [](OwnCalls(Running) /\ OwnAnswer(Running))
    /\ [](OwnCalls(suspended) /\ OwnAnswer(suspended))
    /\ [][/\ env' = env
          /\ \/ suspended' = suspended
             \/ suspended' = Running /\ Running' = suspended]_vars

\* Two proxied requests with different identifiers wait at the join at the
\* same time, the primary call of one settled, that of the other in flight.
C28_Witness ==
    /\ pc = "join" /\ suspended.pc = "join"
    /\ request # suspended.request
    /\ requestId # suspended.requestId
    /\ primary.state = "pending" /\ suspended.primary.state = "settled"
    /\ secondary.state = "settled" /\ suspended.secondary.state = "pending"

====
